---- MODULE Spec2Model ----
(***************************************************************************)
(* SmartCommerce: the keyword-matched business responder (aiService) and   *)
(* the chat widget (AIAnalysisBot) that feeds it rows fetched from the      *)
(* hosted tables.                                                           *)
(*                                                                          *)
(* Strings are TLA+ strings; a substring test, a lower-casing and a trim    *)
(* are computed character by character with Len, SubSeq and \o.             *)
(* A response is identified by the heading of its text template; the       *)
(* figures the template interpolates are the headline metrics it carries.  *)
(* An await is a point at which other handlers may run.                     *)
(***************************************************************************)
EXTENDS Integers, Sequences, FiniteSets, TLC

VARIABLES
    service,       \* which aiService module the widget imports
    request,       \* responder harness: the request under analysis
    result,        \* responder harness: its settled promise, or Pending
    user,          \* useAuth().user : 0 is null, otherwise the user's id
    products,      \* remote table products
    fetches,       \* fetchBusinessData calls in flight
    nextFetch,     \* identity of the next fetchBusinessData call
    data,          \* widget state: data
    messages,      \* widget state: messages
    input,         \* widget state: input
    isLoading,     \* widget state: isLoading
    calls,         \* analyzeBusinessData calls awaited by handleSendMessage
    activePrompt,  \* page state: activePrompt
    instance,      \* AIService.instance, the singleton
    served,        \* requests passed to the singleton and what it answered, in order
    inventoryData, \* Inventory page state: inventoryData
    loading,       \* Inventory page state: loading
    inventoryError, \* Inventory page state: error ("" is null)
    showAddModal,  \* Inventory page state: showAddModal
    addLoading,    \* Inventory page state: addLoading
    editProduct,   \* Inventory page state: id of editProduct, 0 is null
    editLoading,   \* Inventory page state: editLoading
    showDeleteId,  \* Inventory page state: showDeleteId, 0 is null
    deleteLoading, \* Inventory page state: deleteLoading
    requests       \* calls of the Inventory page to the backend, awaited

vars == <<service, request, result, user, products, fetches, nextFetch,
          data, messages, input, isLoading, calls, activePrompt,
          instance, served, inventoryData, loading, inventoryError,
          showAddModal, addLoading, editProduct, editLoading, showDeleteId,
          deleteLoading, requests>>

widgetVars == <<user, products, fetches, nextFetch, data, messages, input,
                isLoading, calls, activePrompt>>

responderVars == <<request, result>>

serviceVars == <<instance, served>>

screenVars == <<inventoryData, loading, inventoryError, showAddModal, addLoading,
                editProduct, editLoading, showDeleteId, deleteLoading, requests>>

(***************************************************************************)
(* Bounds                                                                  *)
(***************************************************************************)
MaxRows == 1         \* rows per list in the responder's data sets
MaxProducts == 1     \* rows in the remote products table
MaxFetches == 2      \* fetchBusinessData calls started
MaxMessages == 5     \* length of the message history
MaxClicks == 1       \* quick-question clicks

(***************************************************************************)
(* String primitives                                                       *)
(***************************************************************************)
UpperCase == "ABCDEFGHIJKLMNOPQRSTUVWXYZ"

LowerCase == "abcdefghijklmnopqrstuvwxyz"

charAt(s, i) == SubSeq(s, i, i)

\* String.prototype.includes
includes(s, pat) ==
    \E i \in 1..(Len(s) - Len(pat) + 1) : SubSeq(s, i, i + Len(pat) - 1) = pat

lowerChar(c) ==
    LET hit == {i \in 1..Len(UpperCase) : charAt(UpperCase, i) = c}
    IN  IF hit = {} THEN c ELSE charAt(LowerCase, CHOOSE i \in hit : TRUE)

RECURSIVE lowerFrom(_, _)
lowerFrom(s, i) ==
    IF i > Len(s) THEN "" ELSE lowerChar(charAt(s, i)) \o lowerFrom(s, i + 1)

\* String.prototype.toLowerCase without the conversion: the text as typed
keepCase(s) == s

\* String.prototype.toLowerCase
toLowerCase(s) == lowerFrom(s, 1)

isSpace(c) == c \in {" ", "\t", "\n"}

RECURSIVE trimStart(_)
trimStart(s) ==
    IF Len(s) > 0 /\ isSpace(charAt(s, 1))
    THEN trimStart(SubSeq(s, 2, Len(s))) ELSE s

RECURSIVE trimEnd(_)
trimEnd(s) ==
    IF Len(s) > 0 /\ isSpace(charAt(s, Len(s)))
    THEN trimEnd(SubSeq(s, 1, Len(s) - 1)) ELSE s

\* the text taken as it is, spaces included
untrimmed(s) == s

\* String.prototype.trim
trim(s) == trimEnd(trimStart(s))

(***************************************************************************)
(* Rows and row aggregation                                                *)
(***************************************************************************)
\* r.f || d for a numeric column: a missing column counts as d
Field(r, f, d) == IF f \in DOMAIN r THEN r[f] ELSE d

RECURSIVE SumAmount(_)
SumAmount(rows) ==
    IF rows = <<>> THEN 0
    ELSE Field(Head(rows), "total_amount", 0) + SumAmount(Tail(rows))

isLowStock(p) == Field(p, "quantity", 0) < 10

isOutOfStock(p) == Field(p, "quantity", 0) = 0

\* a.is_resolved === false : a missing flag counts as resolved
isExplicitlyOpen(a) == Field(a, "is_resolved", TRUE) = FALSE

isActive(a) == ~ Field(a, "is_resolved", FALSE)

\* useState<any>({}) : no products, sales or alerts property
EmptyData == [loaded |-> FALSE, products |-> <<>>, sales |-> <<>>, alerts |-> <<>>]

Loaded(p, s, a) == [loaded |-> TRUE, products |-> p, sales |-> s, alerts |-> a]

\* the headline metrics computed before any intent is tested
Metrics(d) ==
    [totalRevenue  |-> SumAmount(d.sales),
     totalProducts |-> Len(d.products),
     totalSales    |-> Len(d.sales),
     activeAlerts  |-> Len(SelectSeq(d.alerts, isActive)),
     lowStock      |-> Len(SelectSeq(d.products, isLowStock)),
     outOfStock    |-> Len(SelectSeq(d.products, isOutOfStock))]

(***************************************************************************)
(* aiService                                                               *)
(***************************************************************************)
Services == {"basic", "extended"}

FailedToAnalyze == "Failed to analyze business data"

TypeErrorNoData == "TypeError: Cannot read properties of undefined (reading 'reduce')"

TypeErrorNoAnalysis == "TypeError: Cannot read properties of undefined (reading 'analysis')"

DefaultHelp == "I can help you analyze:"

Returned(title, d) == [outcome |-> "return", analysis |-> title, metrics |-> Metrics(d)]

ReturnedUndefined == [outcome |-> "undefined"]

Thrown(msg) == [outcome |-> "throw", error |-> msg]

\* const lowerQuery = query.toLowerCase() with the conversion left out
lowerQueryKeepCase(req) == keepCase(req.query)

\* const lowerQuery = query.toLowerCase()
lowerQueryOf(req) == toLowerCase(req.query)

\* services/aiService.ts : the four-topic responder
performLocalAnalysisBasic(req) ==
    LET lowerQuery == lowerQueryOf(req)
        d == req.data
    IN  IF ~ d.loaded THEN Thrown(TypeErrorNoData)
        ELSE IF includes(lowerQuery, "sales") \/ includes(lowerQuery, "revenue")
        THEN Returned("**Sales Analysis:**", d)
        ELSE IF includes(lowerQuery, "inventory") \/ includes(lowerQuery, "stock")
                \/ includes(lowerQuery, "products")
        THEN Returned("**Inventory Analysis:**", d)
        ELSE IF includes(lowerQuery, "performance") \/ includes(lowerQuery, "trend")
                \/ includes(lowerQuery, "growth")
        THEN Returned("**Performance Analysis:**", d)
        ELSE Returned(DefaultHelp, d)

\* src/unnamed/part_003 : the extended responder; the chain ends without a
\* return, so a query that matches no intent yields undefined
performLocalAnalysisExtended(req) ==
    LET lowerQuery == lowerQueryOf(req)
        d == req.data
    IN  IF ~ d.loaded THEN Thrown(TypeErrorNoData)
        ELSE IF includes(lowerQuery, "top-selling product")
        THEN Returned("**Top-Selling Products:**", d)
        ELSE IF includes(lowerQuery, "average order value")
        THEN Returned("**Average Order Value:**", d)
        ELSE IF includes(lowerQuery, "revenue trend")
                \/ includes(lowerQuery, "revenue growth")
        THEN Returned("**Revenue Trend:**", d)
        ELSE IF includes(lowerQuery, "categories generate the most revenue")
                \/ includes(lowerQuery, "best selling categories")
        THEN Returned("**Best Selling Categories:**", d)
        ELSE IF includes(lowerQuery, "sales performing")
        THEN Returned("**Sales Performance:**", d)
        ELSE IF includes(lowerQuery, "need restocking")
                \/ includes(lowerQuery, "low stock alert")
        THEN Returned("**Low Stock Products:**", d)
        ELSE IF includes(lowerQuery, "out of stock")
        THEN Returned("**Out of Stock Products:**", d)
        ELSE IF includes(lowerQuery, "inventory value")
        THEN Returned("**Total Inventory Value:**", d)
        ELSE IF includes(lowerQuery, "category distribution")
                \/ includes(lowerQuery, "categories have the most products")
        THEN Returned("**Category Distribution:**", d)
        ELSE IF includes(lowerQuery, "inventory insights")
        THEN Returned("**Inventory Overview:**", d)
        ELSE IF includes(lowerQuery, "customer retention")
        THEN Returned("**Customer Retention Rate:**", d)
        ELSE IF includes(lowerQuery, "top customers")
        THEN Returned("**Top Customers:**", d)
        ELSE IF includes(lowerQuery, "customer segment")
        THEN Returned("**Customer Segments:**", d)
        ELSE IF includes(lowerQuery, "customer behavior")
        THEN Returned("**Customer Behavior:**", d)
        ELSE IF includes(lowerQuery, "customer loyalty")
        THEN Returned("**Customer Loyalty:**", d)
        ELSE IF includes(lowerQuery, "seasonal pattern")
        THEN Returned("**Seasonal Pattern:**", d)
        ELSE IF includes(lowerQuery, "growth opportunity")
        THEN Returned("**Growth Opportunities:**", d)
        ELSE IF includes(lowerQuery, "business performing")
        THEN Returned("**Business Performance:**", d)
        ELSE IF includes(lowerQuery, "growth trend")
        THEN Returned("**Growth Trend:**", d)
        ELSE IF includes(lowerQuery, "performance analysis")
        THEN Returned("**Performance Analysis:**", d)
        ELSE IF includes(lowerQuery, "profit margin")
        THEN Returned("**Profit Margin:**", d)
        ELSE IF includes(lowerQuery, "most profitable")
        THEN Returned("**Most Profitable Products:**", d)
        ELSE IF includes(lowerQuery, "cost structure")
        THEN Returned("**Cost Structure:**", d)
        ELSE IF includes(lowerQuery, "pricing insight")
        THEN Returned("**Pricing Insights:**", d)
        ELSE IF includes(lowerQuery, "profitability")
        THEN Returned("**Profitability Overview:**", d)
        ELSE IF includes(lowerQuery, "business recommendation")
                \/ includes(lowerQuery, "immediate action")
                \/ includes(lowerQuery, "focus on to grow")
                \/ includes(lowerQuery, "biggest opportunities")
                \/ includes(lowerQuery, "optimize my operations")
        THEN Returned("**Business Recommendations:**", d)
        ELSE ReturnedUndefined

\* performLocalAnalysis of the imported module
performLocalAnalysis(svc, req) ==
    IF svc = "basic" THEN performLocalAnalysisBasic(req)
    ELSE performLocalAnalysisExtended(req)

Pending == [settled |-> "pending"]

Resolved(a) == [settled |-> "resolved",
                response |-> [analysis |-> a.analysis, metrics |-> a.metrics]]

Rejected(msg) == [settled |-> "rejected", error |-> msg]

\* a catch block that lets the caught error through
rethrow(error) == Rejected(error)

\* catch (error) { console.error(...); throw new Error('Failed to analyze business data') }
catchAnalysisError(error) == Rejected(FailedToAnalyze)

\* analyzeBusinessData: the promise it returns, settled
analyzeBusinessData(svc, req) ==
    LET analysis == performLocalAnalysis(svc, req)
    IN  IF analysis.outcome = "throw" THEN catchAnalysisError(analysis.error)
        ELSE IF analysis.outcome = "undefined"
        THEN catchAnalysisError(TypeErrorNoAnalysis)   \* analysis.analysis of undefined
        ELSE Resolved(analysis)

(***************************************************************************)
(* The singleton and the arrays a call works on                            *)
(***************************************************************************)
NoInstance == [class |-> "undefined"]

\* new AIService() : the class declares no instance field
AIServiceObject == [class |-> "AIService"]

\* AIService.getInstance
getInstance(inst) == IF inst = NoInstance THEN AIServiceObject ELSE inst

\* the module was loaded: export default AIService.getInstance()
ServiceIdle ==
    /\ instance = getInstance(NoInstance)
    /\ served = <<>>

\* s.customer_id || s.customer_name || 'Unknown'
customerIdOf(s) ==
    IF Field(s, "customer_id", "") # "" THEN s.customer_id
    ELSE IF Field(s, "customer_name", "") # "" THEN s.customer_name
    ELSE "Unknown"

\* the customers object filled by the forEach, its values in insertion order
RECURSIVE customersFrom(_, _)
customersFrom(sales, acc) ==
    IF sales = <<>> THEN acc
    ELSE LET s    == Head(sales)
             id   == customerIdOf(s)
             acc1 == IF \E i \in DOMAIN acc : acc[i].id = id THEN acc
                     ELSE Append(acc, [id |-> id, orders |-> 0, totalSpent |-> 0])
             k    == CHOOSE i \in DOMAIN acc1 : acc1[i].id = id
             acc2 == [acc1 EXCEPT ![k] =
                        [id |-> id, orders |-> @.orders + 1,
                         totalSpent |-> @.totalSpent + Field(s, "total_amount", 0)]]
         IN  customersFrom(Tail(sales), acc2)

\* one element put into a list sorted by (a, b) => b.f - a.f, behind its equals
RECURSIVE insertDesc(_, _, _)
insertDesc(sorted, x, f) ==
    IF sorted = <<>> THEN << x >>
    ELSE IF Field(Head(sorted), f, 0) >= Field(x, f, 0)
         THEN << Head(sorted) >> \o insertDesc(Tail(sorted), x, f)
         ELSE << x >> \o sorted

\* Array.prototype.sort((a, b) => b.f - a.f) : stable, descending
RECURSIVE sortDesc(_, _)
sortDesc(arr, f) ==
    IF arr = <<>> THEN <<>>
    ELSE insertDesc(sortDesc(SubSeq(arr, 1, Len(arr) - 1), f), arr[Len(arr)], f)

\* the arrays alive during analyzeCustomerBehavior: the request's three lists
\* and customerList = Object.values(customers)
arraysOf(d) ==
    [products |-> d.products, sales |-> d.sales, alerts |-> d.alerts,
     customerList |-> customersFrom(d.sales, <<>>)]

\* data.sales.sort((a, b) => b.total_amount - a.total_amount) : the request's
\* own list sorted in place
salesSortedInPlace(h) == [h EXCEPT !.sales = sortDesc(@, "total_amount")]

\* customerList.sort((a, b) => b.totalSpent - a.totalSpent) : sorts in place
customerListSortedInPlace(h) == [h EXCEPT !.customerList = sortDesc(@, "totalSpent")]

\* the arrays when analyzeCustomerBehavior returns
analyzeCustomerBehavior(d) == customerListSortedInPlace(arraysOf(d))

\* the request object after the call: every other method reads the lists with
\* reduce, filter, forEach, find, slice and map only
requestAfterCall(req) ==
    IF ~ req.data.loaded THEN req
    ELSE LET h == analyzeCustomerBehavior(req.data)
         IN  [req EXCEPT !.data = Loaded(h.products, h.sales, h.alerts)]

(***************************************************************************)
(* Queries offered by the pages and the documentation                      *)
(***************************************************************************)
\* the extended AI Analysis page
quickQueries ==
    [sales |-> << "How are my sales performing this month?",
                  "What are my top-selling products?",
                  "Show me revenue trends and growth",
                  "Which categories generate the most revenue?",
                  "What's my average order value?" >>,
     inventory |-> << "What inventory insights do you have?",
                      "Which products need restocking?",
                      "Show me low stock alerts",
                      "What's my total inventory value?",
                      "Which categories have the most products?" >>,
     customers |-> << "Analyze my customer behavior",
                      "Who are my top customers?",
                      "What's my customer retention rate?",
                      "Show me customer segments",
                      "How can I improve customer loyalty?" >>,
     performance |-> << "Give me business performance analysis",
                        "Show me growth trends",
                        "What are the seasonal patterns?",
                        "Identify growth opportunities",
                        "How is my business performing overall?" >>,
     profitability |-> << "Analyze my profit margins",
                          "Which products are most profitable?",
                          "What's my cost structure?",
                          "How can I improve profitability?",
                          "Show me pricing insights" >>,
     recommendations |-> << "Give me business recommendations",
                            "What should I focus on to grow?",
                            "Identify immediate action items",
                            "What are the biggest opportunities?",
                            "How can I optimize my operations?" >>]

Range(seq) == {seq[i] : i \in DOMAIN seq}

AllQuickQueries == UNION {Range(quickQueries[c]) : c \in DOMAIN quickQueries}

\* pages/AIAnalysis.tsx
quickQueriesBasic ==
    << "How are my sales performing?",
       "What inventory insights do you have?",
       "Give me business recommendations",
       "Show me performance trends" >>

\* the documentation's example queries
exampleQueries ==
    << "How are my sales performing?",
       "What inventory insights do you have?",
       "Give me business recommendations",
       "Show me performance trends",
       "What are my top-selling products?" >>

\* texts a user may type
typedQueries ==
    { "", "   ", "hello", " Show me growth trends ",
      "HOW ARE MY SALES PERFORMING?", "how are my sales performing?",
      "Show me REVENUE TRENDS and growth trends",
      "profit margins and profitability",
      "Which products are in stock? Show sales" }

QueryPool ==
    AllQuickQueries \cup Range(quickQueriesBasic) \cup Range(exampleQueries)
        \cup typedQueries

(***************************************************************************)
(* Data sets handed to the responder                                       *)
(***************************************************************************)
SeqsUpTo(S, n) == UNION {[1..k -> S] : k \in 0..n}

ProductRows(u) == {[id |-> 1, user_id |-> u, quantity |-> 0],
                   [id |-> 2, user_id |-> u, quantity |-> 20],
                   [id |-> 3, user_id |-> u]}

SalesRows(u) == {[user_id |-> u, total_amount |-> 100], [user_id |-> u]}

AlertRows(u) == {[user_id |-> u, is_resolved |-> TRUE],
                 [user_id |-> u, is_resolved |-> FALSE]}

ListData ==
    {Loaded(p, s, a) : p \in SeqsUpTo(ProductRows(1), MaxRows),
                       s \in SeqsUpTo(SalesRows(1), MaxRows),
                       a \in SeqsUpTo(AlertRows(1), MaxRows)}

DataPool == ListData \cup {EmptyData}

(***************************************************************************)
(* The chat widget and the page around it                                  *)
(***************************************************************************)
Welcome == "Hello! I'm your AI business analyst. I can help you understand your sales data, inventory trends, and provide actionable insights. What would you like to know about your business?"

Apology == "Sorry, I encountered an error while analyzing your data. Please try again."

NoAnalysis == [settled |-> "none"]

UserMessage(q) == [type |-> "user", content |-> q, analysis |-> NoAnalysis]

BotMessage(r) == [type |-> "bot", content |-> r.response.analysis, analysis |-> r]

\* the catch block's errorMessage
errorMessage(r) == [type |-> "bot", content |-> Apology, analysis |-> NoAnalysis]

WelcomeMessage == [type |-> "bot", content |-> Welcome, analysis |-> NoAnalysis]

NoPrompt == [query |-> "", id |-> 0]

Users == {1, 2}

\* remote tables sales_data and inventory_alerts: no screen writes them
sales_data == << [user_id |-> 1, total_amount |-> 100],
                 [user_id |-> 2, total_amount |-> 250] >>

inventory_alerts == << [user_id |-> 1, is_resolved |-> FALSE],
                       [user_id |-> 2, is_resolved |-> TRUE] >>

\* .select('*').eq('user_id', uid)
SelectEq(table, uid) == SelectSeq(table, LAMBDA r : r.user_id = uid)

Selected(rows) == [state |-> "ok", rows |-> rows]

SelectFailed == [state |-> "null"]

\* productsData || []
OrEmpty(res) == IF res.state = "ok" THEN res.rows ELSE <<>>

\* setMessages([userMessage]) : the history replaced by the new message
replaceMessages(prev, m) == << m >>

\* setMessages(prev => [...prev, m])
appendMessage(prev, m) == Append(prev, m)

\* setInput('') on every send
alwaysClearInput(queryOverride, inp) == ""

\* if (!queryOverride) setInput('')
inputAfterSend(queryOverride, inp) == IF queryOverride = "" THEN "" ELSE inp

\* if (!query) return : a guard that ignores isLoading
sendBlockedEmptyOnly(query, busy) == query = ""

\* if (!query || isLoading) return
sendBlocked(query, busy) == query = "" \/ busy

\* handleSendMessage up to its await; queryOverride is "" when no argument is given
handleSendMessage(queryOverride) ==
    LET query == trim(IF queryOverride # "" THEN queryOverride ELSE input)
    IN  IF sendBlocked(query, isLoading)
        THEN UNCHANGED <<messages, input, isLoading, calls>>
        ELSE /\ messages' = appendMessage(messages, UserMessage(query))
             /\ input' = inputAfterSend(queryOverride, input)
             /\ isLoading' = TRUE
             /\ calls' = Append(calls, [query |-> query, data |-> data])

\* room left in the bounded history for one more exchange
RoomForExchange == Len(messages) + Len(calls) + 2 <= MaxMessages

\* texts typed into the input box
inputTexts == {"   ", " Show me growth trends "}

\* the quick-question buttons of the page that goes with the imported service
offeredQueries ==
    IF service = "basic" THEN {quickQueriesBasic[1], quickQueriesBasic[3]}
    ELSE {quickQueries.performance[2], quickQueries.performance[4]}

WidgetIdle ==
    /\ user = 0
    /\ products = <<>>
    /\ fetches = {}
    /\ nextFetch = 1
    /\ data = EmptyData
    /\ messages = << WelcomeMessage >>
    /\ input = ""
    /\ isLoading = FALSE
    /\ calls = <<>>
    /\ activePrompt = NoPrompt

\* the useState initial values of the Inventory page, no call under way
ScreenIdle ==
    /\ inventoryData = <<>>
    /\ loading = TRUE
    /\ inventoryError = ""
    /\ showAddModal = FALSE
    /\ addLoading = FALSE
    /\ editProduct = 0
    /\ editLoading = FALSE
    /\ showDeleteId = 0
    /\ deleteLoading = FALSE
    /\ requests = <<>>

\* the widget mounted on the page, nobody signed in yet
Init ==
    /\ service \in Services
    /\ request = [query |-> "", data |-> EmptyData]
    /\ result = Pending
    /\ WidgetIdle
    /\ ServiceIdle
    /\ ScreenIdle

\* useAuth() delivers another user; the [user] effect starts fetchBusinessData
AuthChange(u) ==
    /\ u # user
    /\ user' = u
    /\ IF u # 0
       THEN /\ nextFetch <= MaxFetches
            /\ fetches' = fetches \cup {[id |-> nextFetch, uid |-> u]}
            /\ nextFetch' = nextFetch + 1
       ELSE UNCHANGED <<fetches, nextFetch>>
    /\ UNCHANGED <<responderVars, serviceVars, screenVars, service, products, data, messages, input,
                   isLoading, calls, activePrompt>>

\* the three selects are answered, each with the user's rows or with
\* data: null (sales_data and inventory_alerts together), and Promise.all
\* resolves: setData
FetchCompletes(f) ==
    /\ f \in fetches
    /\ \E okp \in BOOLEAN, ok \in BOOLEAN :
         LET p == IF okp THEN Selected(SelectEq(products, f.uid)) ELSE SelectFailed
             s == IF ok THEN Selected(SelectEq(sales_data, f.uid)) ELSE SelectFailed
             a == IF ok THEN Selected(SelectEq(inventory_alerts, f.uid)) ELSE SelectFailed
         IN  data' = Loaded(OrEmpty(p), OrEmpty(s), OrEmpty(a))
    /\ fetches' = fetches \ {f}
    /\ UNCHANGED <<responderVars, serviceVars, screenVars, service, user, products, nextFetch,
                   messages, input, isLoading, calls, activePrompt>>

\* Promise.all rejects: the catch block logs and leaves data alone
FetchFails(f) ==
    /\ f \in fetches
    /\ fetches' = fetches \ {f}
    /\ UNCHANGED <<responderVars, serviceVars, screenVars, service, user, products, nextFetch, data,
                   messages, input, isLoading, calls, activePrompt>>

\* onChange of the input box, which is disabled while loading
TypeInput(t) ==
    /\ ~ isLoading
    /\ t # input
    /\ input' = t
    /\ UNCHANGED <<responderVars, serviceVars, screenVars, service, user, products, fetches,
                   nextFetch, data, messages, isLoading, calls, activePrompt>>

\* the send button or the Enter key
SendTyped ==
    /\ RoomForExchange
    /\ handleSendMessage("")
    /\ UNCHANGED <<responderVars, serviceVars, screenVars, service, user, products, fetches,
                   nextFetch, data, activePrompt>>

\* handleQuickQuery, then the widget's [prompt] effect
QuickQuery(q) ==
    /\ RoomForExchange
    /\ activePrompt.id < MaxClicks
    /\ activePrompt' = [query |-> q, id |-> activePrompt.id + 1]
    /\ handleSendMessage(q)
    /\ UNCHANGED <<responderVars, serviceVars, screenVars, service, user, products, fetches,
                   nextFetch, data>>

\* the awaited analyzeBusinessData settles: bot reply or apology, then
\* setIsLoading(false)
AnalysisSettles(i) ==
    /\ i \in DOMAIN calls
    /\ LET r == analyzeBusinessData(service, calls[i])
       IN  messages' = appendMessage(messages,
                          IF r.settled = "resolved" THEN BotMessage(r)
                          ELSE errorMessage(r))
    /\ isLoading' = FALSE
    /\ calls' = [j \in 1..(Len(calls) - 1) |-> IF j < i THEN calls[j] ELSE calls[j + 1]]
    /\ UNCHANGED <<responderVars, serviceVars, screenVars, service, user, products, fetches,
                   nextFetch, data, input, activePrompt>>

\* Inventory screen: handleAddProduct inserts a row for the signed-in user
InsertProduct ==
    /\ user # 0
    /\ Len(products) < MaxProducts
    /\ LET id == CHOOSE k \in 1..(MaxProducts + 1) :
                   /\ \A i \in DOMAIN products : products[i].id # k
                   /\ \A j \in 1..(k - 1) : \E i \in DOMAIN products : products[i].id = j
       IN  products' = Append(products, [id |-> id, user_id |-> user, current_stock |-> 5])
    /\ UNCHANGED <<responderVars, serviceVars, screenVars, service, user, fetches, nextFetch, data,
                   messages, input, isLoading, calls, activePrompt>>

\* Inventory screen: handleDeleteProduct deletes a row shown to the signed-in user
DeleteProduct(i) ==
    /\ user # 0
    /\ i \in DOMAIN products
    /\ products[i].user_id = user
    /\ products' = [j \in 1..(Len(products) - 1) |->
                      IF j < i THEN products[j] ELSE products[j + 1]]
    /\ UNCHANGED <<responderVars, serviceVars, screenVars, service, user, fetches, nextFetch, data,
                   messages, input, isLoading, calls, activePrompt>>

\* the page with the widget: signing in and out, fetching, typing, sending
Next ==
    \/ \E u \in Users \cup {0} : AuthChange(u)
    \/ \E f \in fetches : FetchCompletes(f)
    \/ \E f \in fetches : FetchFails(f)
    \/ \E t \in inputTexts : TypeInput(t)
    \/ SendTyped
    \/ \E q \in offeredQueries : QuickQuery(q)
    \/ \E i \in DOMAIN calls : AnalysisSettles(i)

Spec == Init /\ [][Next]_vars

\* one account with the widget open in one tab and the Inventory screen in
\* another: quick questions on one side, inserts and deletes on the other
NextInventory ==
    \/ \E u \in {0, 1} : AuthChange(u)
    \/ \E f \in fetches : FetchCompletes(f)
    \/ \E q \in offeredQueries : QuickQuery(q)
    \/ \E i \in DOMAIN calls : AnalysisSettles(i)
    \/ InsertProduct
    \/ \E i \in DOMAIN products : DeleteProduct(i)

SpecInventory == Init /\ [][NextInventory]_vars

(***************************************************************************)
(* The Inventory page                                                      *)
(***************************************************************************)
MaxRequests == 2     \* calls of the Inventory page under way at once

RemoveAt(seq, i) ==
    [j \in 1..(Len(seq) - 1) |-> IF j < i THEN seq[j] ELSE seq[j + 1]]

\* the id the backend gives the next row
freshId(table) ==
    CHOOSE k \in 1..(Len(table) + 1) : \A i \in DOMAIN table : table[i].id # k

\* .insert([{ ..., current_stock, user_id }])
insertRow(table, uid) ==
    Append(table, [id |-> freshId(table), user_id |-> uid, current_stock |-> 5])

\* .update({ ..., current_stock }).eq('id', id)
updateRows(table, id) ==
    [i \in DOMAIN table |->
        IF table[i].id = id THEN [table[i] EXCEPT !.current_stock = 7] ELSE table[i]]

\* .delete().eq('id', id)
deleteRows(table, id) == SelectSeq(table, LAMBDA r : r.id # id)

\* the signed-in user's page mounted: the [user] effect has started fetchInventory
InitScreen ==
    /\ service = "basic"
    /\ request = [query |-> "", data |-> EmptyData]
    /\ result = Pending
    /\ user \in Users
    /\ products = <<>>
    /\ fetches = {}
    /\ nextFetch = 1
    /\ data = EmptyData
    /\ messages = << WelcomeMessage >>
    /\ input = ""
    /\ isLoading = FALSE
    /\ calls = <<>>
    /\ activePrompt = NoPrompt
    /\ ServiceIdle
    /\ inventoryData = <<>>
    /\ loading = TRUE
    /\ inventoryError = ""
    /\ showAddModal = FALSE
    /\ addLoading = FALSE
    /\ editProduct = 0
    /\ editLoading = FALSE
    /\ showDeleteId = 0
    /\ deleteLoading = FALSE
    /\ requests = << [kind |-> "fetch", id |-> 0] >>

\* the page shows the list and its buttons, not the loader or the error text
Rendered == ~ loading /\ inventoryError = ""

NoDialog == ~ showAddModal /\ editProduct = 0 /\ showDeleteId = 0

\* every variable the Inventory page does not own
offScreenVars ==
    <<responderVars, serviceVars, service, user, fetches, nextFetch, data,
      messages, input, isLoading, calls, activePrompt>>

\* fetchInventory after its await
FetchInventoryReturns(i, ok) ==
    /\ i \in DOMAIN requests /\ requests[i].kind = "fetch"
    /\ IF ok THEN /\ inventoryData' = SelectEq(products, user)
                  /\ UNCHANGED inventoryError
       ELSE /\ inventoryError' = "error.message"
            /\ inventoryData' = <<>>
    /\ loading' = FALSE
    /\ requests' = RemoveAt(requests, i)
    /\ UNCHANGED <<offScreenVars, products, showAddModal, addLoading,
                   editProduct, editLoading, showDeleteId, deleteLoading>>

\* the Add Product button
OpenAdd ==
    /\ Rendered /\ NoDialog
    /\ showAddModal' = TRUE
    /\ UNCHANGED <<offScreenVars, products, inventoryData, loading, inventoryError,
                   addLoading, editProduct, editLoading, showDeleteId,
                   deleteLoading, requests>>

\* Cancel, or the dialog closed
CloseAdd ==
    /\ Rendered /\ showAddModal
    /\ showAddModal' = FALSE
    /\ UNCHANGED <<offScreenVars, products, inventoryData, loading, inventoryError,
                   addLoading, editProduct, editLoading, showDeleteId,
                   deleteLoading, requests>>

\* handleAddProduct with a valid form, up to its first await
SubmitAdd ==
    /\ Rendered /\ showAddModal /\ ~ addLoading
    /\ user # 0
    /\ Len(requests) < MaxRequests
    /\ Len(products) < MaxProducts
    /\ addLoading' = TRUE
    /\ requests' = Append(requests, [kind |-> "insert", id |-> 0])
    /\ UNCHANGED <<offScreenVars, products, inventoryData, loading, inventoryError,
                   showAddModal, editProduct, editLoading, showDeleteId,
                   deleteLoading>>

\* handleAddProduct after the insert: toast, and on success the dialog closed
\* and the refreshing select started
AddReturns(i, ok) ==
    /\ i \in DOMAIN requests /\ requests[i].kind = "insert"
    /\ addLoading' = FALSE
    /\ IF ok
       THEN /\ products' = insertRow(products, user)
            /\ showAddModal' = FALSE
            /\ loading' = TRUE
            /\ requests' = Append(RemoveAt(requests, i), [kind |-> "select", id |-> 0])
       ELSE /\ requests' = RemoveAt(requests, i)
            /\ UNCHANGED <<products, showAddModal, loading>>
    /\ UNCHANGED <<offScreenVars, inventoryData, inventoryError, editProduct,
                   editLoading, showDeleteId, deleteLoading>>

\* openEditModal on a row of the list
OpenEdit(id) ==
    /\ Rendered /\ NoDialog
    /\ \E i \in DOMAIN inventoryData : inventoryData[i].id = id
    /\ editProduct' = id
    /\ UNCHANGED <<offScreenVars, products, inventoryData, loading, inventoryError,
                   showAddModal, addLoading, editLoading, showDeleteId,
                   deleteLoading, requests>>

CloseEdit ==
    /\ Rendered /\ editProduct # 0
    /\ editProduct' = 0
    /\ UNCHANGED <<offScreenVars, products, inventoryData, loading, inventoryError,
                   showAddModal, addLoading, editLoading, showDeleteId,
                   deleteLoading, requests>>

\* handleEditProduct with a valid form, up to its first await
SubmitEdit ==
    /\ Rendered /\ editProduct # 0 /\ ~ editLoading
    /\ user # 0
    /\ Len(requests) < MaxRequests
    /\ editLoading' = TRUE
    /\ requests' = Append(requests, [kind |-> "update", id |-> editProduct])
    /\ UNCHANGED <<offScreenVars, products, inventoryData, loading, inventoryError,
                   showAddModal, addLoading, editProduct, showDeleteId,
                   deleteLoading>>

\* handleEditProduct after the update
EditReturns(i, ok) ==
    /\ i \in DOMAIN requests /\ requests[i].kind = "update"
    /\ editLoading' = FALSE
    /\ IF ok
       THEN /\ products' = updateRows(products, requests[i].id)
            /\ editProduct' = 0
            /\ loading' = TRUE
            /\ requests' = Append(RemoveAt(requests, i), [kind |-> "select", id |-> 0])
       ELSE /\ requests' = RemoveAt(requests, i)
            /\ UNCHANGED <<products, editProduct, loading>>
    /\ UNCHANGED <<offScreenVars, inventoryData, inventoryError, showAddModal,
                   addLoading, showDeleteId, deleteLoading>>

\* the delete button of a row
AskDelete(id) ==
    /\ Rendered /\ NoDialog
    /\ \E i \in DOMAIN inventoryData : inventoryData[i].id = id
    /\ showDeleteId' = id
    /\ UNCHANGED <<offScreenVars, products, inventoryData, loading, inventoryError,
                   showAddModal, addLoading, editProduct, editLoading,
                   deleteLoading, requests>>

CloseDelete ==
    /\ Rendered /\ showDeleteId # 0
    /\ showDeleteId' = 0
    /\ UNCHANGED <<offScreenVars, products, inventoryData, loading, inventoryError,
                   showAddModal, addLoading, editProduct, editLoading,
                   deleteLoading, requests>>

\* handleDeleteProduct up to its await
ConfirmDelete ==
    /\ Rendered /\ showDeleteId # 0 /\ ~ deleteLoading
    /\ user # 0
    /\ Len(requests) < MaxRequests
    /\ deleteLoading' = TRUE
    /\ requests' = Append(requests, [kind |-> "delete", id |-> showDeleteId])
    /\ UNCHANGED <<offScreenVars, products, inventoryData, loading, inventoryError,
                   showAddModal, addLoading, editProduct, editLoading,
                   showDeleteId>>

\* handleDeleteProduct after the delete
DeleteReturns(i, ok) ==
    /\ i \in DOMAIN requests /\ requests[i].kind = "delete"
    /\ deleteLoading' = FALSE
    /\ IF ok
       THEN /\ products' = deleteRows(products, requests[i].id)
            /\ showDeleteId' = 0
            /\ loading' = TRUE
            /\ requests' = Append(RemoveAt(requests, i), [kind |-> "select", id |-> 0])
       ELSE /\ requests' = RemoveAt(requests, i)
            /\ UNCHANGED <<products, showDeleteId, loading>>
    /\ UNCHANGED <<offScreenVars, inventoryData, inventoryError, showAddModal,
                   addLoading, editProduct, editLoading>>

\* the refreshing select after a write: if (!error) setInventoryData(data || []),
\* then setLoading(false)
RefreshReturns(i, ok) ==
    /\ i \in DOMAIN requests /\ requests[i].kind = "select"
    /\ IF ok THEN inventoryData' = SelectEq(products, user)
       ELSE UNCHANGED inventoryData
    /\ loading' = FALSE
    /\ requests' = RemoveAt(requests, i)
    /\ UNCHANGED <<offScreenVars, products, inventoryError, showAddModal,
                   addLoading, editProduct, editLoading, showDeleteId,
                   deleteLoading>>

NextScreen ==
    \/ \E i \in DOMAIN requests, ok \in BOOLEAN : FetchInventoryReturns(i, ok)
    \/ OpenAdd
    \/ CloseAdd
    \/ SubmitAdd
    \/ \E i \in DOMAIN requests, ok \in BOOLEAN : AddReturns(i, ok)
    \/ \E id \in 1..MaxProducts : OpenEdit(id)
    \/ CloseEdit
    \/ SubmitEdit
    \/ \E i \in DOMAIN requests, ok \in BOOLEAN : EditReturns(i, ok)
    \/ \E id \in 1..MaxProducts : AskDelete(id)
    \/ CloseDelete
    \/ ConfirmDelete
    \/ \E i \in DOMAIN requests, ok \in BOOLEAN : DeleteReturns(i, ok)
    \/ \E i \in DOMAIN requests, ok \in BOOLEAN : RefreshReturns(i, ok)

SpecScreen == InitScreen /\ [][NextScreen]_vars

(***************************************************************************)
(* The responder on its own: every request of the pools, analysed once     *)
(***************************************************************************)
InitResponder ==
    /\ service \in Services
    /\ request \in [query : QueryPool, data : DataPool]
    /\ result = Pending
    /\ WidgetIdle
    /\ ServiceIdle
    /\ ScreenIdle

Analyse ==
    /\ result = Pending
    /\ result' = analyzeBusinessData(service, request)
    /\ UNCHANGED <<service, request, widgetVars, serviceVars, screenVars>>

NextResponder == Analyse

SpecResponder == InitResponder /\ [][NextResponder]_vars

(***************************************************************************)
(* The helper methods of the service on their own                          *)
(***************************************************************************)
MaxSales == 11       \* sales rows in the lists given to analyzeSalesTrend

NoSalesData == "No sales data available"

InsufficientData == "Insufficient data for trend analysis"

\* Array.prototype.slice(start, end): a negative index counts from the end
slice(arr, start, end) ==
    LET len  == Len(arr)
        clamp(k) == IF k < 0 THEN (IF len + k < 0 THEN 0 ELSE len + k)
                    ELSE (IF k > len THEN len ELSE k)
    IN  SubSeq(arr, clamp(start) + 1, clamp(end))

\* data.sales.slice(-5)
recentSalesOf(sales) == slice(sales, -5, Len(sales))

\* data.sales.slice(-10) : the last ten rows, the recent ones included
olderSalesWithRecent(sales) == slice(sales, -10, Len(sales))

\* data.sales.slice(-10, -5)
olderSalesOf(sales) == slice(sales, -10, -5)

analyzeSalesTrend(d) ==
    IF Len(d.sales) = 0 THEN NoSalesData
    ELSE LET recentSales == recentSalesOf(d.sales)
             olderSales  == olderSalesOf(d.sales)
         IN  IF Len(olderSales) = 0 THEN InsufficientData
             ELSE LET recentTotal == SumAmount(recentSales)
                      olderTotal  == SumAmount(olderSales)
                  IN  IF recentTotal > olderTotal THEN "Increasing"
                      ELSE IF recentTotal < olderTotal THEN "Decreasing"
                      ELSE "Stable"

\* the value a helper method returned
Computed(kind, v) == [settled |-> kind, value |-> v]

\* sales rows with and without an amount
TrendRows == {[user_id |-> 1], [user_id |-> 1, total_amount |-> 1],
              [user_id |-> 1, total_amount |-> 3]}

InitTrend ==
    /\ service \in Services
    /\ request \in [query : {"How are my sales performing?"},
                    data : {Loaded(<<>>, s, <<>>) : s \in SeqsUpTo(TrendRows, MaxSales)}]
    /\ result = Pending
    /\ WidgetIdle
    /\ ServiceIdle
    /\ ScreenIdle

SalesTrend ==
    /\ result = Pending
    /\ result' = Computed("trend", analyzeSalesTrend(request.data))
    /\ UNCHANGED <<service, request, widgetVars, serviceVars, screenVars>>

NextTrend == SalesTrend

SpecTrend == InitTrend /\ [][NextTrend]_vars

MaxList == 3         \* rows per list given to the headline metrics

\* a / b kept exact: numerator and denominator
Quotient(a, b) == [num |-> a, den |-> b]

\* totalSales > 0 ? totalRevenue / totalSales : 0
avgOrderValue(d) ==
    IF Len(d.sales) > 0 THEN Quotient(SumAmount(d.sales), Len(d.sales))
    ELSE Quotient(0, 1)

\* the constants computed at the head of performLocalAnalysis
keyMetrics(d) ==
    [totalRevenue  |-> Metrics(d).totalRevenue,
     totalProducts |-> Metrics(d).totalProducts,
     totalSales    |-> Metrics(d).totalSales,
     activeAlerts  |-> Metrics(d).activeAlerts,
     avgOrderValue |-> avgOrderValue(d)]

MetricSales == {[user_id |-> 1], [user_id |-> 1, total_amount |-> 100],
                [user_id |-> 1, total_amount |-> 250]}

MetricProducts == {[id |-> 1, user_id |-> 1]}

MetricAlerts == {[user_id |-> 1], [user_id |-> 1, is_resolved |-> TRUE],
                 [user_id |-> 1, is_resolved |-> FALSE]}

InitMetrics ==
    /\ service \in Services
    /\ request \in [query : {"How are my sales performing?"},
                    data : {Loaded(p, s, a) :
                              p \in SeqsUpTo(MetricProducts, MaxList),
                              s \in SeqsUpTo(MetricSales, MaxList),
                              a \in SeqsUpTo(MetricAlerts, MaxList)}]
    /\ result = Pending
    /\ WidgetIdle
    /\ ServiceIdle
    /\ ScreenIdle

KeyMetrics ==
    /\ result = Pending
    /\ result' = Computed("metrics", keyMetrics(request.data))
    /\ UNCHANGED <<service, request, widgetVars, serviceVars, screenVars>>

NextMetrics == KeyMetrics

SpecMetrics == InitMetrics /\ [][NextMetrics]_vars

MaxCalls == 3        \* calls made to the singleton

\* two sales of one customer around a larger sale of another
CustomerSales ==
    << [user_id |-> 1, customer_id |-> "c1", total_amount |-> 100],
       [user_id |-> 1, customer_id |-> "c2", total_amount |-> 250],
       [user_id |-> 1, customer_id |-> "c1", total_amount |-> 100] >>

ServiceRequests ==
    [query : {"Who are my top customers?", "How are my sales performing?", "hello"},
     data  : {Loaded(<<>>, <<>>, <<>>),
              Loaded(<< [id |-> 1, user_id |-> 1, quantity |-> 0] >>, CustomerSales,
                     << [user_id |-> 1, is_resolved |-> FALSE] >>)}]

InitService ==
    /\ service \in Services
    /\ request = [query |-> "", data |-> EmptyData]
    /\ result = Pending
    /\ WidgetIdle
    /\ ServiceIdle
    /\ ScreenIdle

\* aiService.analyzeBusinessData(req) on the default export, awaited
CallService(req) ==
    /\ Len(served) < MaxCalls
    /\ instance' = getInstance(instance)
    /\ result' = analyzeBusinessData(service, req)
    /\ request' = requestAfterCall(req)
    /\ served' = Append(served, [request |-> req, response |-> result'])
    /\ UNCHANGED <<service, widgetVars, screenVars>>

NextService == \E req \in ServiceRequests : CallService(req)

SpecService == InitService /\ [][NextService]_vars

(***************************************************************************)
(* JavaScript numbers, kept exact as fractions, with NaN                   *)
(***************************************************************************)
RECURSIVE gcd(_, _)
gcd(a, b) == IF b = 0 THEN a ELSE gcd(b, a % b)

Abs(a) == IF a < 0 THEN -a ELSE a

\* a / b in lowest terms, b > 0
Ratio(a, b) ==
    LET g == gcd(Abs(a), b)
    IN  [nan |-> FALSE, num |-> a \div g, den |-> b \div g]

Num(n) == Ratio(n, 1)

\* NaN; undefined where a number is expected behaves the same in *, +, || and >
NaN == [nan |-> TRUE, num |-> 0, den |-> 1]

numAdd(x, y) ==
    IF x.nan \/ y.nan THEN NaN
    ELSE Ratio(x.num * y.den + y.num * x.den, x.den * y.den)

numSub(x, y) ==
    IF x.nan \/ y.nan THEN NaN
    ELSE Ratio(x.num * y.den - y.num * x.den, x.den * y.den)

numMul(x, y) ==
    IF x.nan \/ y.nan THEN NaN ELSE Ratio(x.num * y.num, x.den * y.den)

\* x / y for y > 0, the only divisions the guards let through
numDiv(x, y) ==
    IF x.nan \/ y.nan \/ y.num <= 0 THEN NaN
    ELSE Ratio(x.num * y.den, x.den * y.num)

\* x > 0
numPositive(x) == ~ x.nan /\ x.num > 0

\* x || y : undefined, NaN and 0 are falsy
orElse(x, y) == IF x.nan \/ x.num = 0 THEN y ELSE x

\* r.f read as a number; r is a row, or NoRow for undefined (prod?.f)
NoRow == [missing |-> TRUE]

numField(r, f) == IF f \in DOMAIN r THEN Num(r[f]) ELSE NaN

\* data.products.find(p => p.product_id === s.product_id)
findProduct(prods, s) ==
    LET hits == {i \in DOMAIN prods :
                   /\ "product_id" \in DOMAIN prods[i]
                   /\ "product_id" \in DOMAIN s
                   /\ prods[i].product_id = s.product_id}
    IN  IF hits = {} THEN NoRow
        ELSE prods[CHOOSE i \in hits : \A j \in hits : i <= j]

\* (prod?.cost_price || prod?.price * 0.6) * (s.quantity_sold || 0)
costOfSale(prod, s) ==
    numMul(orElse(numField(prod, "cost_price"),
                  numMul(numField(prod, "price"), Ratio(6, 10))),
           Num(Field(s, "quantity_sold", 0)))

RECURSIVE totalCostOf(_, _)
totalCostOf(prods, sales) ==
    IF sales = <<>> THEN Num(0)
    ELSE numAdd(totalCostOf(prods, SubSeq(sales, 1, Len(sales) - 1)),
                costOfSale(findProduct(prods, sales[Len(sales)]), sales[Len(sales)]))

\* p.price > 0 ? ((p.price - (p.cost_price || p.price * 0.6)) / p.price) * 100 : 0
productMargin(p) ==
    LET price == numField(p, "price")
    IN  IF numPositive(price)
        THEN numMul(numDiv(numSub(price, orElse(numField(p, "cost_price"),
                                                numMul(price, Ratio(6, 10)))),
                           price),
                    Num(100))
        ELSE Num(0)

RECURSIVE sumMargins(_)
sumMargins(prods) ==
    IF prods = <<>> THEN Num(0)
    ELSE numAdd(sumMargins(SubSeq(prods, 1, Len(prods) - 1)),
                productMargin(prods[Len(prods)]))

analyzeProfitability(d) ==
    LET totalRevenue == Num(SumAmount(d.sales))
        totalCost    == totalCostOf(d.products, d.sales)
        grossProfit  == numSub(totalRevenue, totalCost)
        grossMargin  == IF numPositive(totalRevenue)
                        THEN numMul(numDiv(grossProfit, totalRevenue), Num(100))
                        ELSE Num(0)
        netProfit    == numMul(grossProfit, Ratio(8, 10))
        avgProductMargin ==
            IF Len(d.products) > 0
            THEN numDiv(sumMargins(d.products), Num(Len(d.products)))
            ELSE Num(0)
    IN  [grossMargin |-> grossMargin, netProfit |-> netProfit,
         avgProductMargin |-> avgProductMargin, cogs |-> totalCost]

\* product rows: with cost and price, with price only, and as the Inventory
\* screen writes them, with unit_price and no price
ProfitProducts ==
    {[user_id |-> 1, product_id |-> "P1", cost_price |-> 40, price |-> 100],
     [user_id |-> 1, product_id |-> "P1", price |-> 100],
     [user_id |-> 1, product_id |-> "P1", unit_price |-> 100]}

\* sales rows with numeric total_amount and quantity_sold, of product P1 and
\* of a product no row describes
ProfitSales ==
    {[user_id |-> 1, product_id |-> "P1", total_amount |-> 100, quantity_sold |-> 1],
     [user_id |-> 1, product_id |-> "P1", total_amount |-> 0, quantity_sold |-> 2],
     [user_id |-> 1, product_id |-> "P2", total_amount |-> 50, quantity_sold |-> 0]}

InitProfit ==
    /\ service = "extended"
    /\ request \in [query : {"What is my profit margin?"},
                    data : {Loaded(p, s, <<>>) :
                              p \in SeqsUpTo(ProfitProducts, MaxList),
                              s \in SeqsUpTo(ProfitSales, MaxList)}]
    /\ result = Pending
    /\ WidgetIdle
    /\ ServiceIdle
    /\ ScreenIdle

Profitability ==
    /\ result = Pending
    /\ result' = Computed("profit", analyzeProfitability(request.data))
    /\ UNCHANGED <<service, request, widgetVars, serviceVars, screenVars>>

NextProfit == Profitability

SpecProfit == InitProfit /\ [][NextProfit]_vars

\* the intents of the extended responder in source order: heading and substrings
ExtendedIntents ==
    <<
      [title |-> "**Top-Selling Products:**",
       subs |-> {"top-selling product"}],
      [title |-> "**Average Order Value:**",
       subs |-> {"average order value"}],
      [title |-> "**Revenue Trend:**",
       subs |-> {"revenue trend", "revenue growth"}],
      [title |-> "**Best Selling Categories:**",
       subs |-> {"categories generate the most revenue", "best selling categories"}],
      [title |-> "**Sales Performance:**",
       subs |-> {"sales performing"}],
      [title |-> "**Low Stock Products:**",
       subs |-> {"need restocking", "low stock alert"}],
      [title |-> "**Out of Stock Products:**",
       subs |-> {"out of stock"}],
      [title |-> "**Total Inventory Value:**",
       subs |-> {"inventory value"}],
      [title |-> "**Category Distribution:**",
       subs |-> {"category distribution", "categories have the most products"}],
      [title |-> "**Inventory Overview:**",
       subs |-> {"inventory insights"}],
      [title |-> "**Customer Retention Rate:**",
       subs |-> {"customer retention"}],
      [title |-> "**Top Customers:**",
       subs |-> {"top customers"}],
      [title |-> "**Customer Segments:**",
       subs |-> {"customer segment"}],
      [title |-> "**Customer Behavior:**",
       subs |-> {"customer behavior"}],
      [title |-> "**Customer Loyalty:**",
       subs |-> {"customer loyalty"}],
      [title |-> "**Seasonal Pattern:**",
       subs |-> {"seasonal pattern"}],
      [title |-> "**Growth Opportunities:**",
       subs |-> {"growth opportunity"}],
      [title |-> "**Business Performance:**",
       subs |-> {"business performing"}],
      [title |-> "**Growth Trend:**",
       subs |-> {"growth trend"}],
      [title |-> "**Performance Analysis:**",
       subs |-> {"performance analysis"}],
      [title |-> "**Profit Margin:**",
       subs |-> {"profit margin"}],
      [title |-> "**Most Profitable Products:**",
       subs |-> {"most profitable"}],
      [title |-> "**Cost Structure:**",
       subs |-> {"cost structure"}],
      [title |-> "**Pricing Insights:**",
       subs |-> {"pricing insight"}],
      [title |-> "**Profitability Overview:**",
       subs |-> {"profitability"}],
      [title |-> "**Business Recommendations:**",
       subs |-> {"business recommendation", "immediate action",
                 "focus on to grow", "biggest opportunities",
                 "optimize my operations"}] >>

BasicIntents ==
    << [title |-> "**Sales Analysis:**", subs |-> {"sales", "revenue"}],
       [title |-> "**Inventory Analysis:**", subs |-> {"inventory", "stock", "products"}],
       [title |-> "**Performance Analysis:**", subs |-> {"performance", "trend", "growth"}] >>

\* the queries of the pool, lower-cased
lowerOfPool == [q \in QueryPool |-> toLowerCase(q)]

\* the queries of the pool that differ from q in letter case at most
CaseVariants(q) == {q2 \in QueryPool : lowerOfPool[q2] = lowerOfPool[q]}

\* a reference data set: three empty lists
NoRows == Loaded(<<>>, <<>>, <<>>)

Hits(intents, lq) ==
    {i \in 1..Len(intents) : \E s \in intents[i].subs : includes(lq, s)}

Matches(intents, q) == Hits(intents, lowerOfPool[q]) # {}

\* heading of the first intent in source order with a substring in lq
FirstTitleIn(intents, lq) ==
    LET hits == Hits(intents, lq)
    IN  intents[CHOOSE i \in hits : \A j \in hits : i <= j].title

FirstTitle(intents, q) == FirstTitleIn(intents, lowerOfPool[q])

IntentsOf(svc) == IF svc = "basic" THEN BasicIntents ELSE ExtendedIntents

\* heading of the template that answers query q
TitleOf(svc, q) ==
    LET lq == toLowerCase(q)
    IN  IF Hits(IntentsOf(svc), lq) = {} THEN DefaultHelp
        ELSE FirstTitleIn(IntentsOf(svc), lq)

Analysed == result # Pending

ListRequest == request.data.loaded

\* C1: the extended responder answers every query over list data with a
\* response template, also a query that contains none of the intent substrings
C1_AlwaysTemplate ==
    (service = "extended" /\ Analysed /\ ListRequest)
        => result.settled = "resolved"

\* C2: the template returned is decided by the lower-cased query alone: it is
\* the first intent in source order whose substring occurs (the default help of
\* the four-topic responder when none does), and no request with the same
\* query up to case gets another template, be it over the same data or over
\* three empty lists (so any two such requests get the same template)
C2_TemplateByQueryAlone ==
    (Analysed /\ result.settled = "resolved") =>
        LET intents == IntentsOf(service)
        IN  /\ result.response.analysis =
                    IF Matches(intents, request.query)
                    THEN FirstTitle(intents, request.query) ELSE DefaultHelp
            /\ \A q2 \in CaseVariants(request.query) :
                 \A d2 \in {request.data, NoRows} :
                   LET r2 == analyzeBusinessData(service, [query |-> q2, data |-> d2])
                   IN  r2.settled = "resolved" =>
                         r2.response.analysis = result.response.analysis

\* a resolved request whose query has capitals and contains the substrings of
\* two intents
C2_Witness ==
    /\ Analysed /\ result.settled = "resolved"
    /\ service = "extended"
    /\ request.query = "Show me REVENUE TRENDS and growth trends"
    /\ result.response.analysis = "**Revenue Trend:**"
    /\ request.data.sales # <<>>

\* C3: each of the 30 quick questions of the extended page contains the
\* substring of an intent of the extended responder and, with loaded data, is
\* answered with an analysis template
C3_QuickQuestionsAnswered ==
    (service = "extended" /\ Analysed /\ ListRequest
        /\ request.query \in AllQuickQueries)
        => /\ Matches(ExtendedIntents, request.query)
           /\ result.settled = "resolved"

\* C4: each of the documentation's five example queries is answered by the
\* extended responder with an analysis response over list data
C4_ExampleQueriesAnswered ==
    (service = "extended" /\ Analysed /\ ListRequest
        /\ request.query \in Range(exampleQueries))
        => result.settled = "resolved"
(***************************************************************************)
(* Properties of the chat widget                                           *)
(***************************************************************************)
ApologyMessage == [type |-> "bot", content |-> Apology, analysis |-> NoAnalysis]

ErrorTexts == {FailedToAnalyze, TypeErrorNoData, TypeErrorNoAnalysis}

\* a step in which handleSendMessage passed a request to analyzeBusinessData
Sent == Len(calls') > Len(calls)

\* a step in which the awaited call settled
Settled == Len(calls) = 1 /\ calls' = <<>>

\* a step in which a quick-question button was clicked
Clicked == activePrompt' # activePrompt

UserCount(msgs) == Cardinality({i \in DOMAIN msgs : msgs[i].type = "user"})

C5_FailuresAreFixedText ==
    /\ \A i \in DOMAIN calls :
         LET r == analyzeBusinessData(service, calls[i])
         IN  r.settled = "rejected" => r.error = FailedToAnalyze
    /\ \A i \in DOMAIN messages :
         /\ messages[i].content \notin ErrorTexts
         /\ (i > 1 /\ messages[i].type = "bot"
               /\ messages[i].analysis.settled # "resolved")
              => messages[i] = ApologyMessage

C5_FailureAppendsApology ==
    (Settled /\ analyzeBusinessData(service, calls[1]).settled = "rejected")
        => messages' = Append(messages, ApologyMessage)

\* C5: whatever is raised while analysing, analyzeBusinessData rejects with
\* exactly 'Failed to analyze business data', the widget then appends exactly
\* one bot message with the fixed apology, and no error text or business data
\* reaches the message history through a failure
C5_SingleTryCatch ==
    []C5_FailuresAreFixedText /\ [][C5_FailureAppendsApology]_vars

\* a failed analysis (data never loaded) answered with the apology
C5_Witness ==
    /\ Len(messages) >= 3
    /\ messages[2].type = "user"
    /\ messages[3] = ApologyMessage
    /\ calls = <<>>

\* C6: every row passed to analyzeBusinessData belongs to the user who is
\* signed in when the query is sent
C6_OnlyCurrentUsersRows ==
    [][(Sent /\ user # 0) =>
          LET d == calls'[Len(calls')].data
          IN  \A r \in Range(d.products) \cup Range(d.sales) \cup Range(d.alerts) :
                r.user_id = user]_vars

\* C7: whenever a query is analysed, the lists passed equal the rows now stored
\* for the signed-in user in the remote tables. Stated for the product list, and
\* for the requests whose product list is not empty and holds rows of the
\* signed-in user only
C7_DataIsCurrent ==
    [][(/\ Sent /\ user # 0
        /\ calls'[Len(calls')].data.products # <<>>
        /\ \A r \in Range(calls'[Len(calls')].data.products) : r.user_id = user)
          => calls'[Len(calls')].data.products = SelectEq(products, user)]_vars

C8_WelcomeThenAlternating ==
    /\ messages # <<>>
    /\ messages[1] = WelcomeMessage
    /\ \A i \in 2..Len(messages) :
         IF i % 2 = 0
         THEN messages[i].type = "user" /\ messages[i].analysis = NoAnalysis
         ELSE /\ messages[i].type = "bot"
              /\ \/ messages[i] = ApologyMessage
                 \/ /\ messages[i].analysis.settled = "resolved"
                    /\ messages[i].content = messages[i].analysis.response.analysis
                    /\ messages[i].content = TitleOf(service, messages[i - 1].content)

C8_AppendOnly ==
    /\ Len(messages') >= Len(messages)
    /\ SubSeq(messages', 1, Len(messages)) = messages

\* C8: the history starts with the welcome message, is only ever appended to,
\* and after the welcome alternates user message, bot reply, each reply (the
\* template for that query, or the apology) right after the message it answers
C8_MessageHistory ==
    []C8_WelcomeThenAlternating /\ [][C8_AppendOnly]_vars

\* two exchanges: the first failed, the second answered with an analysis
C8_Witness ==
    /\ Len(messages) = 5
    /\ messages[3] = ApologyMessage
    /\ messages[5].analysis.settled = "resolved"

C9_Delivered ==
    /\ messages' = Append(messages, UserMessage(activePrompt'.query))
    /\ calls' = Append(calls, [query |-> activePrompt'.query, data |-> data])
    /\ input' = input

C9_Dropped == messages' = messages /\ calls' = calls /\ input' = input

\* C9 as stated: every click on a quick-question button, whatever the widget is
\* doing, appends one user message with the clicked query, has it analysed and
\* leaves the input box alone
C9_EveryClickDelivered == [][Clicked => C9_Delivered]_vars

\* C9 amended: a click that arrives while no query is loading is delivered so;
\* a click that arrives while a query is loading changes neither the history,
\* nor the calls, nor the input box
C9_ClickDeliveredUnlessLoading ==
    [][Clicked => IF isLoading THEN C9_Dropped ELSE C9_Delivered]_vars

\* a clicked question under analysis while typed text waits in the input box
C9_Witness ==
    /\ activePrompt.id >= 1
    /\ input = " Show me growth trends "
    /\ Len(calls) = 1 /\ calls[1].query = activePrompt.query
    /\ messages[Len(messages)] = UserMessage(activePrompt.query)

C10_AtMostOneCall == Len(calls) <= 1 /\ (isLoading <=> Len(calls) = 1)

C10_NoSendWhileLoading ==
    isLoading => (~ Sent /\ UserCount(messages') = UserCount(messages))

\* C10: at most one analyzeBusinessData call is outstanding at any moment, and
\* a send attempted while isLoading is true appends no user message and starts
\* no analysis
C10_OneRequestAtATime ==
    []C10_AtMostOneCall /\ [][C10_NoSendWhileLoading]_vars

\* a quick question clicked while a typed query was loading, and dropped
C10_Witness ==
    /\ isLoading
    /\ Len(calls) = 1
    /\ activePrompt.id >= 1
    /\ calls[1].query # activePrompt.query
    /\ messages[Len(messages)].content # activePrompt.query

(***************************************************************************)
(* Properties of the helper methods                                        *)
(***************************************************************************)
\* total_amount of the i-th row, a missing amount counted as 0
AmountAt(rows, i) ==
    IF "total_amount" \in DOMAIN rows[i] THEN rows[i].total_amount ELSE 0

RECURSIVE SumBetween(_, _, _)
SumBetween(rows, lo, hi) ==
    IF lo > hi \/ hi < 1 THEN 0
    ELSE (IF hi >= lo /\ lo >= 1 THEN AmountAt(rows, hi) ELSE 0)
         + SumBetween(rows, lo, hi - 1)

Max(a, b) == IF a > b THEN a ELSE b

\* C11: analyzeSalesTrend compares the sum of total_amount over the last 5
\* sales rows with the sum over the 5 rows before them (missing amounts counted
\* as 0): Increasing, Decreasing or Stable; an empty list gives 'No sales data
\* available', a list with no row before the last 5 'Insufficient data for
\* trend analysis'
C11_LastFiveVersusPreviousFive ==
    result.settled = "trend" =>
        LET rows == request.data.sales
            n    == Len(rows)
            last == SumBetween(rows, Max(1, n - 4), n)
            prev == SumBetween(rows, Max(1, n - 9), n - 5)
        IN  result.value =
              IF n = 0 THEN NoSalesData
              ELSE IF n <= 5 THEN InsufficientData
              ELSE IF last > prev THEN "Increasing"
              ELSE IF last < prev THEN "Decreasing"
              ELSE "Stable"

\* eleven rows, the oldest one outside both windows: with it the previous rows
\* would outweigh the last five, without it the two windows are equal
C11_Witness ==
    /\ result.settled = "trend"
    /\ Len(request.data.sales) = 11
    /\ AmountAt(request.data.sales, 1) = 3
    /\ "total_amount" \notin DOMAIN request.data.sales[11]
    /\ result.value = "Stable"

\* C12: the headline metrics are row aggregates: total revenue the sum of
\* total_amount (missing counted as 0), total orders the number of sales rows,
\* total products the number of product rows, active alerts the number of alert
\* rows whose is_resolved is not true, and the average order value revenue
\* divided by the number of sales rows, or 0 without sales rows, never with a
\* zero divisor
C12_HeadlineMetrics ==
    result.settled = "metrics" =>
        LET d   == request.data
            m   == result.value
            rev == SumBetween(d.sales, 1, Len(d.sales))
        IN  /\ m.totalRevenue = rev
            /\ m.totalSales = Cardinality(DOMAIN d.sales)
            /\ m.totalProducts = Cardinality(DOMAIN d.products)
            /\ m.activeAlerts =
                 Cardinality({i \in DOMAIN d.alerts :
                    ~ ("is_resolved" \in DOMAIN d.alerts[i]
                         /\ d.alerts[i].is_resolved = TRUE)})
            /\ m.avgOrderValue.den # 0
            /\ IF d.sales = <<>> THEN m.avgOrderValue.num = 0
               ELSE m.avgOrderValue.num * Len(d.sales) = rev * m.avgOrderValue.den

\* three sales of which one has no amount, and an alert without the flag
C12_Witness ==
    /\ result.settled = "metrics"
    /\ Len(request.data.sales) = 3
    /\ \E i \in 1..3 : "total_amount" \notin DOMAIN request.data.sales[i]
    /\ result.value.totalRevenue = 350
    /\ \E i \in DOMAIN request.data.alerts :
         "is_resolved" \notin DOMAIN request.data.alerts[i]
    /\ result.value.activeAlerts >= 1

(***************************************************************************)
(* Properties of the singleton                                             *)
(***************************************************************************)
\* a step in which the singleton was called
Called == Len(served') > Len(served)

C13_EqualRequestsEqualResponses ==
    /\ instance = AIServiceObject
    /\ \A i, j \in DOMAIN served :
         served[i].request = served[j].request
            => served[i].response = served[j].response

C13_CallLeavesListsAndInstance ==
    Called =>
        LET passed == served'[Len(served')].request
        IN  /\ request'.data.products = passed.data.products
            /\ request'.data.sales = passed.data.sales
            /\ request'.data.alerts = passed.data.alerts
            /\ instance' = instance

IsBlank(s) == \A i \in 1..Len(s) : charAt(s, i) = " "

\* t is s without the spaces at its two ends
IsTrimOf(t, s) ==
    /\ t # ""
    /\ charAt(t, 1) # " " /\ charAt(t, Len(t)) # " "
    /\ \E i \in 0..(Len(s) - Len(t)) :
         /\ SubSeq(s, i + 1, i + Len(t)) = t
         /\ IsBlank(SubSeq(s, 1, i))
         /\ IsBlank(SubSeq(s, i + Len(t) + 1, Len(s)))

\* the text of a send: the clicked question, or else the input box
SendText == IF Clicked THEN activePrompt'.query ELSE input

C14_BlankSendChangesNothing ==
    (IsBlank(input) /\ ~ Clicked) =>
        /\ ~ Sent
        /\ UserCount(messages') = UserCount(messages)
        /\ (isLoading' => isLoading)
        /\ (input' # input => input' \in inputTexts)

C14_SentTextIsTrimmed ==
    Sent =>
        LET m == messages'[Len(messages')]
            c == calls'[Len(calls')]
        IN  /\ ~ IsBlank(SendText)
            /\ Len(messages') = Len(messages) + 1
            /\ m.type = "user"
            /\ IsTrimOf(m.content, SendText)
            /\ c.query = m.content

\* C14: a send whose text is empty or only spaces appends no message, starts no
\* analysis, does not set isLoading and leaves the input box as it is; any send
\* that is recorded carries the trimmed text in the user message and in the
\* request passed to analyzeBusinessData
C14_InputValidation ==
    [][C14_BlankSendChangesNothing /\ C14_SentTextIsTrimmed]_vars

\* a text typed with a space at each end, sent: recorded without them
C14_Witness ==
    /\ isLoading
    /\ input = ""
    /\ activePrompt = NoPrompt
    /\ messages[Len(messages)] = UserMessage("Show me growth trends")
    /\ Len(calls) = 1 /\ calls[1].query = "Show me growth trends"

(***************************************************************************)
(* Properties of the four-topic responder                                  *)
(***************************************************************************)
\* C15: the four-topic responder answers each of the four quick questions of
\* its page with the analysis of a topic and not with the default help text
C15_QuickQuestionsGetTopic ==
    (service = "basic" /\ Analysed /\ ListRequest
        /\ request.query \in Range(quickQueriesBasic))
        => /\ result.settled = "resolved"
           /\ result.response.analysis # DefaultHelp

(***************************************************************************)
(* Properties of the margin estimates                                      *)
(***************************************************************************)
NumericSales(d) ==
    \A i \in DOMAIN d.sales :
        {"total_amount", "quantity_sold"} \subseteq DOMAIN d.sales[i]

\* x = y as numbers
numEq(x, y) == ~ x.nan /\ ~ y.nan /\ x.num * y.den = y.num * x.den

\* C16: when every sale has a numeric total_amount and quantity_sold, the cost
\* of goods sold, the gross margin and the net profit of analyzeProfitability
\* are numbers, never NaN, also for a sale whose product_id matches no product
\* row or whose product has no cost_price or no price; the gross margin is 0
\* when the revenue is 0 and the net profit is 80% of revenue minus cost
C16_MarginsAreNumbers ==
    (result.settled = "profit" /\ NumericSales(request.data)) =>
        LET m   == result.value
            rev == Num(SumBetween(request.data.sales, 1, Len(request.data.sales)))
        IN  /\ ~ m.cogs.nan
            /\ ~ m.grossMargin.nan
            /\ ~ m.netProfit.nan
            /\ (rev.num = 0 => numEq(m.grossMargin, Num(0)))
            /\ numEq(numMul(m.netProfit, Num(10)), numMul(numSub(rev, m.cogs), Num(8)))

(***************************************************************************)
(* Properties of the Inventory page                                        *)
(***************************************************************************)
\* a step in which the write behind a loading flag returned with an error
WriteFailed(flag, flagAfter) ==
    flag /\ ~ flagAfter /\ Len(requests') < Len(requests)

\* a step in which it returned without one
WriteSucceeded(flag, flagAfter) ==
    flag /\ ~ flagAfter /\ Len(requests') = Len(requests)

\* a step in which the refresh after a successful write returned
Refreshed ==
    /\ \E i \in DOMAIN requests :
         requests[i].kind = "select" /\ requests' = RemoveAt(requests, i)
    /\ ~ loading'

C17_FailureLeavesPage ==
    /\ WriteFailed(addLoading, addLoading')
         => showAddModal' = showAddModal /\ inventoryData' = inventoryData
    /\ WriteFailed(editLoading, editLoading')
         => editProduct' = editProduct /\ inventoryData' = inventoryData
    /\ WriteFailed(deleteLoading, deleteLoading')
         => showDeleteId' = showDeleteId /\ inventoryData' = inventoryData

C17_SuccessClosesDialog ==
    /\ WriteSucceeded(addLoading, addLoading') => ~ showAddModal'
    /\ WriteSucceeded(editLoading, editLoading') => editProduct' = 0
    /\ WriteSucceeded(deleteLoading, deleteLoading') => showDeleteId' = 0

C17_SuccessShowsStoredRows ==
    Refreshed => inventoryData' = SelectEq(products', user')

\* C17: when an add, edit or delete of the Inventory page has finished, a
\* failed write has left its dialog and the displayed list as they were, and a
\* successful write has closed its dialog and the displayed list equals the
\* user's rows now stored in the products table
C17_ListFollowsWrites ==
    [][C17_FailureLeavesPage /\ C17_SuccessClosesDialog
          /\ C17_SuccessShowsStoredRows]_vars
====
